---- MODULE Spec2Model ----
(***************************************************************************)
(* Model of app.py: the placeholder text-to-speech generator               *)
(* (generate_tts_demo, _build_summary_text) and the Gradio wiring that     *)
(* binds six input components and two output components to it.            *)
(*                                                                         *)
(* Representation.                                                         *)
(*  - A text is a sequence of one-character strings.  "x" stands for any   *)
(*    character that is not whitespace; " ", "\n" and "\t" are themselves. *)
(*  - A slider value is an integer number of thousandths (0.85 is 850).    *)
(*  - A float written by json.dumps, or by the format :.2f, is the record  *)
(*    [whole, frac] of its decimal text: 18.0 is [whole |-> 18,            *)
(*    frac |-> <<0>>] and 0.85 is [whole |-> 0, frac |-> <<8, 5>>].        *)
(*  - A clock reading of time.time() is an integer number of ticks,        *)
(*    TicksPerMs ticks to the millisecond.                                 *)
(*  - The description is the record of the slots the template fills; the   *)
(*    metrics text is the record of the keys of the JSON object.           *)
(***************************************************************************)
EXTENDS Integers, Sequences, FiniteSets

VARIABLES text, voice, emotion, speed, temperature, top_p,
          description, metrics_view, req

controls == <<text, voice, emotion, speed, temperature, top_p>>
outputs == <<description, metrics_view>>
vars == <<text, voice, emotion, speed, temperature, top_p,
          description, metrics_view, req>>

----------------------------------------------------------------------------
(* Bounds of the model. *)

\* Voices and emotions the interface specification selects among: the first
\* MaxChoice entries of each list.
MaxChoice == 2
\* Clock readings are 0..MaxClock ticks.
MaxClock == 2
\* Resolution of the clock: ticks to the millisecond.
TicksPerMs == 2
\* Longest body of a text of the family, and longest whitespace padding on
\* either side of it.
MaxBody == 300
MaxPad == 2
\* A body with newlines has one at every NewlineEvery-th position.
NewlineEvery == 4

----------------------------------------------------------------------------
(* Program constants. *)

MODEL_NAME == "Orpheus-3B-0.1-ft-Q4_K_M-GGUF"
VOICE_CHOICES == <<"tara", "leah", "jess", "leo", "dan", "mia", "zac", "zoe">>
EMOTION_TAGS == <<"neutral", "laugh", "cry", "gasp", "hmm">>

\* len(preview) > 80, preview[:80]
PREVIEW_LIMIT == 80
\* The one character U+2026 appended to a cut preview.
ELLIPSIS == "..."
\* random.randint(50, 150)
RAND_LO == 50
RAND_HI == 150
\* max(1.5, min(18.0, len(text) / 12.0)), the two limits in hundredths
DUR_MIN == 150
DUR_MAX == 1800
DUR_DIVISOR == 12
\* Sliders, in thousandths: minimum, maximum, step, value.
SPEED_MIN == 700
SPEED_MAX == 1400
SPEED_VALUE == 1000
TEMPERATURE_MIN == 100
TEMPERATURE_MAX == 1500
TEMPERATURE_VALUE == 600
TOP_P_MIN == 100
TOP_P_MAX == 1000
TOP_P_VALUE == 900
SLIDER_STEP == 50
\* The Textbox's initial value has 43 characters, spaces at 12 and 23.
DEFAULT_TEXT_LEN == 43
DefaultText == [i \in 1..DEFAULT_TEXT_LEN |-> IF i \in {12, 23} THEN " " ELSE "x"]

RETRY_PROMPT == [kind |-> "retry-prompt"]
Blank == [kind |-> "blank"]
NoRequest == [kind |-> "none"]

----------------------------------------------------------------------------
(* Strings. *)

\* The characters str.strip() removes, among those of the model.
Whitespace == {" ", "\n", "\t"}

Min(a, b) == IF a <= b THEN a ELSE b
Max(a, b) == IF a >= b THEN a ELSE b

\* The first position from i on that holds no whitespace, Len(s) + 1 when
\* there is none: what strip() skips on the left.
RECURSIVE lstrip_from(_, _)
lstrip_from(s, i) ==
  IF i > Len(s) \/ s[i] \notin Whitespace THEN i ELSE lstrip_from(s, i + 1)

\* The last position up to j that holds no whitespace, 0 when there is none.
RECURSIVE rstrip_to(_, _)
rstrip_to(s, j) ==
  IF j < 1 \/ s[j] \notin Whitespace THEN j ELSE rstrip_to(s, j - 1)

\* str.strip(): the text between its first and its last non-whitespace
\* character, empty when it has none.
strip(s) ==
  LET first == lstrip_from(s, 1)
      last == rstrip_to(s, Len(s))
  IN IF first > last THEN <<>> ELSE SubSeq(s, first, last)

\* str.replace("\n", " ")
replace_newlines(s) == [i \in 1..Len(s) |-> IF s[i] = "\n" THEN " " ELSE s[i]]

----------------------------------------------------------------------------
(* Numbers. *)

Round1(m) == ((m + 50) \div 100) * 10

\* round(x, 2) of a float given in thousandths, in hundredths.  No slider
\* stop and no duration lies halfway between two hundredths.
Round2(m) == (m + 5) \div 10

\* The decimal text json.dumps writes for a float of h hundredths: repr(),
\* the shortest text that reads back as the same float.
FloatRepr(h) ==
  [whole |-> h \div 100,
   frac |-> IF h % 10 = 0 THEN <<(h \div 10) % 10>>
            ELSE <<(h \div 10) % 10, h % 10>>]

\* The text of the format {x:.2f} for a float given in thousandths.
FormatF2(m) ==
  LET h == (m + 5) \div 10
  IN [whole |-> h \div 100, frac |-> <<(h \div 10) % 10, h % 10>>]

\* The number a decimal text stands for, in hundredths.
Hundredths(r) ==
  r.whole * 100 + r.frac[1] * 10 + (IF Len(r.frac) > 1 THEN r.frac[2] ELSE 0)

\* int(x * 1000) for x seconds given as d ticks: truncation towards zero.
TruncMs(d) == IF d >= 0 THEN d \div TicksPerMs ELSE -((-d) \div TicksPerMs)

----------------------------------------------------------------------------
(* _build_summary_text *)

build_preview_cut_early(t) ==
  LET preview == replace_newlines(strip(t))
  IN IF Len(preview) >= PREVIEW_LIMIT
     THEN Append(SubSeq(preview, 1, PREVIEW_LIMIT), ELLIPSIS)
     ELSE preview

build_preview(t) ==
  LET preview == replace_newlines(strip(t))
  IN IF Len(preview) > PREVIEW_LIMIT
     THEN Append(SubSeq(preview, 1, PREVIEW_LIMIT), ELLIPSIS)
     ELSE preview

_build_summary_text(t, v, e, s, temp, p) ==
  [kind |-> "summary",
   model |-> MODEL_NAME,
   voice |-> v,
   emotion |-> e,
   speed |-> FormatF2(s),
   temperature |-> FormatF2(temp),
   top_p |-> FormatF2(p),
   preview |-> build_preview(t)]

----------------------------------------------------------------------------
(* generate_tts_demo *)

is_empty_input_unstripped(t) == t = <<>>

\* not text or not text.strip()
is_empty_input(t) == t = <<>> \/ strip(t) = <<>>

empty_metrics_zeroed ==
  [status |-> "empty-input", note |-> "enter-text-first", mode |-> "demo",
   latency_ms |-> 0, estimated_audio_duration_s |-> FloatRepr(0)]

empty_metrics ==
  [status |-> "empty-input", note |-> "enter-text-first", mode |-> "demo"]

latency_ms_floored(start, finish, offset) ==
  ((finish - start) \div TicksPerMs) + offset

\* int((time.time() - start) * 1000) + random.randint(50, 150)
latency_ms(start, finish, offset) == TruncMs(finish - start) + offset

clamp_duration_inverted(n) ==
  Max(DUR_MIN * DUR_DIVISOR,
      Min(DUR_MAX * DUR_DIVISOR, (100 * DUR_DIVISOR * DUR_DIVISOR) \div n))

clamp_duration_from_one(n) ==
  Max(100 * DUR_DIVISOR, Min(DUR_MAX * DUR_DIVISOR, 100 * n))

\* max(1.5, min(18.0, n / 12.0)), in units of 1/(100 * 12) second
clamp_duration(n) ==
  Max(DUR_MIN * DUR_DIVISOR, Min(DUR_MAX * DUR_DIVISOR, 100 * n))

\* round(pseudo_duration, 2), in hundredths.  A duration is a multiple of
\* 100/12 hundredths, never halfway between two of them.
round_duration(d) == (d + DUR_DIVISOR \div 2) \div DUR_DIVISOR

pseudo_duration_trimmed(t) == clamp_duration(Len(strip(t)))

\* pseudo_duration of line 101: len(text) is the length of the raw text.
pseudo_duration(t) == clamp_duration(Len(t))

\* The value of estimated_audio_duration_s for a text of n characters.
estimated_audio_duration_s(n) == FloatRepr(round_duration(clamp_duration(n)))

ok_metrics(t, v, e, s, temp, p, start, finish, offset) ==
  [mode |-> "demo",
   status |-> "ok",
   latency_ms |-> latency_ms(start, finish, offset),
   estimated_audio_duration_s |-> FloatRepr(round_duration(pseudo_duration(t))),
   voice |-> v,
   emotion |-> e,
   speed_ratio |-> FloatRepr(Round2(s)),
   sampling |-> [temperature |-> FloatRepr(Round2(temp)),
                 top_p |-> FloatRepr(Round2(p))],
   note |-> "placeholder-output"]

\* The pair (description, metrics) the function returns, given the two clock
\* readings and the random offset it draws.
generate_tts_demo(t, v, e, s, temp, p, start, finish, offset) ==
  IF is_empty_input(t)
  THEN <<RETRY_PROMPT, empty_metrics>>
  ELSE <<_build_summary_text(t, v, e, s, temp, p),
         ok_metrics(t, v, e, s, temp, p, start, finish, offset)>>

----------------------------------------------------------------------------
(* Inputs. *)

Clocks == 0..MaxClock
AllDraws == RAND_LO..RAND_HI
\* The interface specifications draw the two ends of the offset's range and
\* take both clock readings within one tick.
EndDraws == {RAND_LO, RAND_HI}
SameTick == {0}

SliderStops(lo, hi) == {m \in lo..hi : (m - lo) % SLIDER_STEP = 0}
SpeedStops == SliderStops(SPEED_MIN, SPEED_MAX)
TemperatureStops == SliderStops(TEMPERATURE_MIN, TEMPERATURE_MAX)
TopPStops == SliderStops(TOP_P_MIN, TOP_P_MAX)

Voices == {VOICE_CHOICES[i] : i \in 1..Min(MaxChoice, Len(VOICE_CHOICES))}
Emotions == {EMOTION_TAGS[i] : i \in 1..Min(MaxChoice, Len(EMOTION_TAGS))}

Pad(c, k) == [i \in 1..k |-> c]
Body(n, nl) == [i \in 1..n |-> IF nl /\ i % NewlineEvery = 0 THEN "\n" ELSE "x"]
\* Texts of every length: spaces, a body with or without newlines, then
\* newlines or tabs.
TextFamily ==
  {Pad(" ", a) \o Body(n, nl) \o Pad(c, b) :
     a \in 0..MaxPad, n \in 0..MaxBody, nl \in BOOLEAN,
     c \in {"\n", "\t"}, b \in 0..MaxPad}

\* The texts typed in the interface specification.
UiTexts == {<<>>, <<" ", "\n">>, <<" ", "x", "\n", "x", "\t">>}
UiSpeeds == {SPEED_VALUE, SPEED_MIN + SLIDER_STEP}
UiTemperatures == {TEMPERATURE_VALUE, TEMPERATURE_MAX - SLIDER_STEP}
UiTopPs == {TOP_P_VALUE, TOP_P_MAX}

\* The texts of the latency specification.
LatencyTexts == {<<"x">>, <<" ", "x", "\n", "x">>, <<" ">>}

----------------------------------------------------------------------------
(* The interface: gr.Blocks, its components and run_btn.click. *)

\* The components' initial values.
Init ==
  /\ text = DefaultText
  /\ voice = VOICE_CHOICES[1]
  /\ emotion = EMOTION_TAGS[1]
  /\ speed = SPEED_VALUE
  /\ temperature = TEMPERATURE_VALUE
  /\ top_p = TOP_P_VALUE
  /\ description = Blank
  /\ metrics_view = Blank
  /\ req = NoRequest

TextInput ==
  /\ \E t \in UiTexts : text' = t
  /\ UNCHANGED <<voice, emotion, speed, temperature, top_p, description, metrics_view, req>>

VoiceSelect ==
  /\ \E v \in Voices : voice' = v
  /\ UNCHANGED <<text, emotion, speed, temperature, top_p, description, metrics_view, req>>

EmotionSelect ==
  /\ \E e \in Emotions : emotion' = e
  /\ UNCHANGED <<text, voice, speed, temperature, top_p, description, metrics_view, req>>

SpeedSlide ==
  /\ \E s \in UiSpeeds : speed' = s
  /\ UNCHANGED <<text, voice, emotion, temperature, top_p, description, metrics_view, req>>

TemperatureSlide ==
  /\ \E s \in UiTemperatures : temperature' = s
  /\ UNCHANGED <<text, voice, emotion, speed, top_p, description, metrics_view, req>>

TopPSlide ==
  /\ \E s \in UiTopPs : top_p' = s
  /\ UNCHANGED <<text, voice, emotion, speed, temperature, description, metrics_view, req>>

\* The request of a click: the six component values passed as arguments,
\* with the clock readings and the offset the call draws.
Request(start, finish, offset) ==
  [kind |-> "request", text |-> text, voice |-> voice, emotion |-> emotion,
   speed |-> speed, temperature |-> temperature, top_p |-> top_p,
   start |-> start, finish |-> finish, offset |-> offset]

ClickDescriptionOnly(readings, draws) ==
  \E start \in readings, finish \in readings, offset \in draws :
    LET result == generate_tts_demo(text, voice, emotion, speed, temperature,
                                    top_p, start, finish, offset)
    IN /\ description' = result[1]
       /\ metrics_view' = IF metrics_view = Blank THEN result[2] ELSE metrics_view
       /\ req' = Request(start, finish, offset)
       /\ UNCHANGED controls

\* run_btn.click: the function is called with the six components' values
\* and its two results are written to the two output components.
Click(readings, draws) ==
  \E start \in readings, finish \in readings, offset \in draws :
    LET result == generate_tts_demo(text, voice, emotion, speed, temperature,
                                    top_p, start, finish, offset)
    IN /\ description' = result[1]
       /\ metrics_view' = result[2]
       /\ req' = Request(start, finish, offset)
       /\ UNCHANGED controls

RunBtnClick == Click(SameTick, EndDraws)
\* The same call under every pair of clock readings, and under every offset.
RunBtnClickTimed ==
  \/ Click(Clocks, EndDraws)
  \/ Click(SameTick, AllDraws)

Next ==
  \/ TextInput
  \/ VoiceSelect
  \/ EmotionSelect
  \/ SpeedSlide
  \/ TemperatureSlide
  \/ TopPSlide
  \/ RunBtnClick

Spec == Init /\ [][Next]_vars

\* The function applied to every text of the family, the other arguments
\* at the components' initial values.
InitText ==
  /\ text \in TextFamily
  /\ voice = VOICE_CHOICES[1]
  /\ emotion = EMOTION_TAGS[1]
  /\ speed = SPEED_VALUE
  /\ temperature = TEMPERATURE_VALUE
  /\ top_p = TOP_P_VALUE
  /\ description = Blank
  /\ metrics_view = Blank
  /\ req = NoRequest

SpecText == InitText /\ [][RunBtnClick]_vars

\* The function applied at every stop of the three sliders.
InitSliders ==
  /\ text = DefaultText
  /\ voice = VOICE_CHOICES[1]
  /\ emotion = EMOTION_TAGS[1]
  /\ speed \in SpeedStops
  /\ temperature \in TemperatureStops
  /\ top_p \in TopPStops
  /\ description = Blank
  /\ metrics_view = Blank
  /\ req = NoRequest

SpecSliders == InitSliders /\ [][RunBtnClick]_vars

\* The function applied under every pair of clock readings and every offset.
InitLatency ==
  /\ text \in LatencyTexts
  /\ voice \in Voices
  /\ emotion = EMOTION_TAGS[1]
  /\ speed = SPEED_VALUE
  /\ temperature = TEMPERATURE_VALUE
  /\ top_p = TOP_P_VALUE
  /\ description = Blank
  /\ metrics_view = Blank
  /\ req = NoRequest

SpecLatency == InitLatency /\ [][RunBtnClickTimed]_vars

----------------------------------------------------------------------------
(* What the claims speak of. *)

\* A click has happened: req holds its arguments.
Clicked == req.kind = "request"
\* The most recent click returned a normal response.
Ok == Clicked /\ metrics_view.status = "ok"
\* Every character of s is whitespace (so also when s is empty).
OnlyWhitespace(s) == \A i \in 1..Len(s) : s[i] \in Whitespace
\* The number of whitespace characters s begins with, and ends with.
Leading(s) ==
  CHOOSE a \in 0..Len(s) :
    /\ \A j \in 1..a : s[j] \in Whitespace
    /\ a = Len(s) \/ s[a + 1] \notin Whitespace
Trailing(s) ==
  CHOOSE b \in 0..Len(s) :
    /\ \A j \in 1..b : s[Len(s) + 1 - j] \in Whitespace
    /\ b = Len(s) \/ s[Len(s) - b] \notin Whitespace
\* The text s without the whitespace around it (s holds a character that is
\* not whitespace).
Trimmed(s) == SubSeq(s, Leading(s) + 1, Len(s) - Trailing(s))
\* h hundredths is x / den rounded to the nearest hundredth.
NearestHundredth(h, x, den) == 100 * x - den * h \in (-(den \div 2))..(den \div 2)
\* A metrics record without its latency.
WithoutLatency(m) == [k \in (DOMAIN m) \ {"latency_ms"} |-> m[k]]
\* The environments of a call: its two clock readings and its offset.
Environments ==
  (Clocks \X Clocks \X EndDraws) \cup (SameTick \X SameTick \X AllDraws)
\* e is d ticks in whole milliseconds, truncated towards zero.
IsTruncatedMs(e, d) ==
  IF d >= 0 THEN e * TicksPerMs <= d /\ d < (e + 1) * TicksPerMs
  ELSE d <= e * TicksPerMs /\ (e - 1) * TicksPerMs < d

----------------------------------------------------------------------------
(* C1 *)

\* C1: a text that is empty or all whitespace gets the retry prompt and the
\* status "empty-input", whatever the other five arguments are, and a text
\* with a character that is not whitespace never gets either.
C1_EmptyInputBranch ==
  Clicked =>
    IF OnlyWhitespace(req.text)
    THEN description = RETRY_PROMPT /\ metrics_view.status = "empty-input"
    ELSE description # RETRY_PROMPT /\ metrics_view.status # "empty-input"

C1_Witness ==
  /\ Clicked
  /\ req.text # <<>>
  /\ OnlyWhitespace(req.text)
  /\ req.voice # VOICE_CHOICES[1]
  /\ req.speed # SPEED_VALUE
  /\ metrics_view.status = "empty-input"

----------------------------------------------------------------------------
(* C2 *)

----------------------------------------------------------------------------
(* C3 *)

\* C3: the estimated duration is clamp(len(text) / 12, 1.5, 18.0) rounded to
\* two decimals, len(text) counting the raw text with the whitespace around
\* it; 2 characters give 1.5 and 300 characters give 18.0.
C3_DurationOfRawLength ==
  Ok =>
    LET n == Len(req.text)
        d == metrics_view.estimated_audio_duration_s
        \* 12 * clamp(n / 12, 1.5, 18.0)
        clamped == IF n < 18 THEN 18 ELSE IF n > 216 THEN 216 ELSE n
    IN /\ NearestHundredth(Hundredths(d), clamped, 12)
       /\ n = 2 => d = [whole |-> 1, frac |-> <<5>>]
       /\ n = 300 => d = [whole |-> 18, frac |-> <<0>>]

C3_Witness ==
  /\ Ok
  /\ Len(req.text) = 100
  /\ Leading(req.text) > 0
  /\ Trailing(req.text) > 0
  /\ metrics_view.estimated_audio_duration_s = [whole |-> 8, frac |-> <<3, 3>>]

----------------------------------------------------------------------------
(* C4 *)

\* C4 as stated: 12 characters give 1.5, 216 characters give 18.0, and every
\* length from 12 to 216 gives len / 12 rounded to two decimals.
C4_Original ==
  Ok =>
    LET n == Len(req.text)
        h == Hundredths(metrics_view.estimated_audio_duration_s)
    IN /\ n = 12 => h = 150
       /\ n = 216 => h = 1800
       /\ n \in 12..216 => NearestHundredth(h, n, 12)

\* C4 as amended: 12 characters give 1.5, as every length up to 18 does,
\* 216 characters give 18.0, and every length from 18 to 216 gives len / 12
\* rounded to two decimals.
C4_Amended ==
  Ok =>
    LET n == Len(req.text)
        h == Hundredths(metrics_view.estimated_audio_duration_s)
    IN /\ n = 12 => h = 150
       /\ n <= 18 => h = 150
       /\ n = 216 => h = 1800
       /\ n \in 18..216 => NearestHundredth(h, n, 12)

C4_Witness ==
  /\ Ok
  /\ Len(req.text) = 17
  /\ metrics_view.estimated_audio_duration_s = [whole |-> 1, frac |-> <<5>>]

----------------------------------------------------------------------------
(* C5 *)

\* C5: the estimated duration never decreases as len(text) grows: the
\* duration of the text of the call is at most that of every longer text and
\* at least that of every shorter one.
C5_DurationMonotone ==
  Ok =>
    LET h == Hundredths(metrics_view.estimated_audio_duration_s)
    IN \A n \in 1..(MaxBody + 2 * MaxPad) :
         LET other == Hundredths(estimated_audio_duration_s(n))
         IN /\ Len(req.text) <= n => h <= other
            /\ n <= Len(req.text) => other <= h

C5_Witness ==
  /\ Ok
  /\ Len(req.text) = 100
  /\ Hundredths(metrics_view.estimated_audio_duration_s)
       < Hundredths(estimated_audio_duration_s(101))
  /\ Hundredths(estimated_audio_duration_s(99))
       < Hundredths(metrics_view.estimated_audio_duration_s)

----------------------------------------------------------------------------
(* C6 *)

\* C6 as stated: a trimmed text of more than 80 characters is shown as
\* exactly its first 80 characters and one ellipsis; a shorter one is shown
\* whole, each newline replaced by one space, without ellipsis; the preview
\* has at most 81 characters and no newline.
C6_Original ==
  (Clicked /\ description.kind = "summary") =>
    LET t == Trimmed(req.text)
        pv == description.preview
    IN /\ Len(t) > 80 => pv = Append(SubSeq(t, 1, 80), ELLIPSIS)
       /\ Len(t) <= 80 =>
            /\ Len(pv) = Len(t)
            /\ \A i \in 1..Len(t) : pv[i] = IF t[i] = "\n" THEN " " ELSE t[i]
       /\ Len(pv) <= 81
       /\ \A i \in 1..Len(pv) : pv[i] # "\n"

\* C6 as amended: a trimmed text of more than 80 characters is shown as its
\* first 80 characters, each newline among them replaced by one space, and
\* one ellipsis; a shorter one is shown whole, each newline replaced by one
\* space, without ellipsis; the preview has at most 81 characters and no
\* newline.
C6_Amended ==
  (Clicked /\ description.kind = "summary") =>
    LET t == Trimmed(req.text)
        pv == description.preview
    IN /\ Len(t) > 80 =>
            /\ Len(pv) = 81
            /\ pv[81] = ELLIPSIS
            /\ \A i \in 1..80 : pv[i] = IF t[i] = "\n" THEN " " ELSE t[i]
       /\ Len(t) <= 80 =>
            /\ Len(pv) = Len(t)
            /\ \A i \in 1..Len(t) : pv[i] = IF t[i] = "\n" THEN " " ELSE t[i]
       /\ Len(pv) <= 81
       /\ \A i \in 1..Len(pv) : pv[i] # "\n"

C6_Witness ==
  /\ Clicked
  /\ description.kind = "summary"
  /\ Leading(req.text) > 0
  /\ Len(Trimmed(req.text)) = 81
  /\ \E i \in 1..80 : Trimmed(req.text)[i] = "\n"
  /\ Len(description.preview) = 81

----------------------------------------------------------------------------
(* C7 *)

\* The metrics value r is the input of m thousandths rounded to the nearest
\* hundredth.
IsRounded(r, m) == 10 * Hundredths(r) - m \in -5..5

\* C7 as stated: speed_ratio, sampling.temperature and sampling.top_p each
\* have exactly two decimal digits and equal the input rounded to the
\* nearest hundredth, at every slider stop.
C7_Original ==
  Ok =>
    /\ IsRounded(metrics_view.speed_ratio, req.speed)
    /\ IsRounded(metrics_view.sampling.temperature, req.temperature)
    /\ IsRounded(metrics_view.sampling.top_p, req.top_p)
    /\ Len(metrics_view.speed_ratio.frac) = 2
    /\ Len(metrics_view.sampling.temperature.frac) = 2
    /\ Len(metrics_view.sampling.top_p.frac) = 2

\* The decimal text r has two decimal digits, or one when the second would
\* be a zero.
ShortestDecimals(r) ==
  \/ Len(r.frac) = 2 /\ r.frac[2] # 0
  \/ Len(r.frac) = 1

\* C7 as amended: speed_ratio, sampling.temperature and sampling.top_p each
\* equal the input rounded to the nearest hundredth, at every slider stop,
\* and are written with at most two decimal digits: two, or one when the
\* value is a multiple of 0.1 (speed = 1.0 is written 1.0).
C7_Amended ==
  Ok =>
    /\ IsRounded(metrics_view.speed_ratio, req.speed)
    /\ IsRounded(metrics_view.sampling.temperature, req.temperature)
    /\ IsRounded(metrics_view.sampling.top_p, req.top_p)
    /\ ShortestDecimals(metrics_view.speed_ratio)
    /\ ShortestDecimals(metrics_view.sampling.temperature)
    /\ ShortestDecimals(metrics_view.sampling.top_p)
    /\ req.speed = 1000 => metrics_view.speed_ratio = [whole |-> 1, frac |-> <<0>>]

C7_Witness ==
  /\ Ok
  /\ req.speed = 1000
  /\ metrics_view.speed_ratio = [whole |-> 1, frac |-> <<0>>]
  /\ req.temperature = 850
  /\ metrics_view.sampling.temperature = [whole |-> 0, frac |-> <<8, 5>>]
  /\ req.top_p = 100

----------------------------------------------------------------------------
(* C8 *)

\* C8: the metrics of an empty-input response have the three keys status,
\* note and mode, with mode "demo", and no other; the metrics of an "ok"
\* response have latency_ms, estimated_audio_duration_s, voice, emotion,
\* speed_ratio and sampling besides.
C8_EmptyMetricsKeys ==
  Clicked =>
    /\ metrics_view.status = "empty-input" =>
         /\ DOMAIN metrics_view = {"status", "note", "mode"}
         /\ metrics_view.mode = "demo"
    /\ metrics_view.status = "ok" =>
         DOMAIN metrics_view =
           {"status", "note", "mode", "latency_ms", "estimated_audio_duration_s",
            "voice", "emotion", "speed_ratio", "sampling"}
    /\ metrics_view.status \in {"empty-input", "ok"}

C8_Witness ==
  /\ Clicked
  /\ OnlyWhitespace(req.text)
  /\ metrics_view.status = "empty-input"
  /\ DOMAIN metrics_view = {"status", "note", "mode"}

----------------------------------------------------------------------------
(* C9 *)

\* The two outputs are what the function returns for the arguments of the
\* most recent click, and are blank before the first click.
ShowsLastClick ==
  IF Clicked
  THEN outputs = generate_tts_demo(req.text, req.voice, req.emotion, req.speed,
                                   req.temperature, req.top_p,
                                   req.start, req.finish, req.offset)
  ELSE outputs = <<Blank, Blank>>

\* A step that leaves the request as it was (an edit of a component) leaves
\* both outputs as they were; a step that makes a request takes its six
\* arguments from the components as they are, and leaves them so.
EditsKeepOutputs ==
  /\ req' = req => outputs' = outputs
  /\ req' # req =>
       /\ controls' = controls
       /\ <<req'.text, req'.voice, req'.emotion, req'.speed, req'.temperature,
            req'.top_p>> = controls

\* C9: after any clicks and edits the two outputs show what the function
\* returns for the six component values at the most recent click; an edit
\* without a click changes neither output.
C9_OutputsShowLastClick == [](ShowsLastClick) /\ [][EditsKeepOutputs]_vars

C9_Witness ==
  /\ Ok
  /\ text # req.text
  /\ voice # req.voice
  /\ speed # req.speed
  /\ req.text # DefaultText
  /\ req.top_p # TOP_P_VALUE

----------------------------------------------------------------------------
(* C10 *)

\* C10: a second call with the arguments of the most recent one, under any
\* clock readings and any offset, returns the same description and metrics
\* that differ at most in latency_ms; and latency_ms is the elapsed time in
\* whole milliseconds, truncated, plus an integer from 50 to 150.
C10_DeterministicButLatency ==
  Clicked =>
    /\ \A env \in Environments :
         LET again == generate_tts_demo(req.text, req.voice, req.emotion,
                                        req.speed, req.temperature, req.top_p,
                                        env[1], env[2], env[3])
         IN /\ again[1] = description
            /\ WithoutLatency(again[2]) = WithoutLatency(metrics_view)
    /\ metrics_view.status = "ok" =>
         \E k \in 50..150 :
           IsTruncatedMs(metrics_view.latency_ms - k, req.finish - req.start)

C10_Witness ==
  /\ Ok
  /\ req.finish < req.start
  /\ metrics_view.latency_ms = 50
  /\ req.voice # VOICE_CHOICES[1]

====
